---- MODULE Spec2Model ----
(***************************************************************************)
(* Model of the speedrun package of nictuku/ooosplits: the RunManager      *)
(* lifecycle (StartRun, Split, UndoSplit, ResetRun), the save protocol     *)
(* (saveRun), the personal-best override (SaveAsPB), the history queries   *)
(* (loadPersonalBest, ComputeBestSegments), the configuration mutators     *)
(* and the JSON importer.                                                  *)
(*                                                                         *)
(* rm  is the RunManager struct (src/speedrun/data.go:35-51), one field    *)
(*     per Go field, with the Go names.                                    *)
(* db  is the SQLite store (data.go:415-475): the config row, the          *)
(*     split_names, runs and splits tables.  Tables are sequences in       *)
(*     insertion order; a run's id is its position (AUTOINCREMENT, and no  *)
(*     code path deletes a run).                                           *)
(* now is the wall clock read by time.Now(), in ticks.                     *)
(* crashed is TRUE once a Go run-time panic has ended the process.         *)
(* last is the outcome of the most recent call: its name, the boolean      *)
(*     returned by Split, and the class of the error it returned.          *)
(* scn is a history variable: how far the calls made since the last        *)
(*     StartRun follow the script "k Splits, k Undos, k Splits".  It is    *)
(*     read by no action, and recorded only under SpecScenario.            *)
(*                                                                         *)
(* Statements of a write transaction (Begin, Exec, Commit) may fail: the   *)
(* failing statement is an input of the action.  Read queries issued       *)
(* outside a transaction are taken to succeed.                             *)
(*                                                                         *)
(* Spec is the lifecycle with the save protocol and the override;          *)
(* SpecImport adds ImportFromJSON; SpecConfig adds UpdateConfig and        *)
(* UpdateSplitNames; SpecScenario is Spec with scn recorded.               *)
(* SpecReliable is Spec on a store whose statements never fail, and        *)
(* SpecAutomatic is SpecReliable without the override.                     *)
(***************************************************************************)
EXTENDS Integers, Sequences, FiniteSets, TLC

VARIABLES rm, db, now, crashed, last, scn

vars == <<rm, db, now, crashed, last, scn>>

----------------------------------------------------------------------------
(* Bounds of the model. *)

\* The clock stops advancing at MaxTime ticks.
MaxTime == 2
\* No more than MaxRuns rows are inserted into the runs table.
MaxRuns == 2
\* The in-memory attempts counter is not driven beyond MaxAttempts.
MaxAttempts == 2
\* The configured split-name list has at most MaxSplits names.
MaxSplits == 2

\* Ticks of the model clock in one second (time.Second).
TicksPerSecond == 2
\* Seconds in a minute, the factor 60 of the importer's clock arithmetic.
SecondsPerMinute == 60
\* The "large value" best segments start from; data.go uses 1<<63 - 1, the
\* model uses the largest value of its own integer width.
BigDuration == 2147483647

----------------------------------------------------------------------------
(* Go values. *)

Nil == <<>>
Ptr(x) == <<x>>
Deref(p) == p[1]

RECURSIVE SumSeq(_)
\* for _, split := range splits { total += split }
SumSeq(s) == IF s = <<>> THEN 0 ELSE Head(s) + SumSeq(Tail(s))

\* time.Time.Format(time.RFC3339): whole seconds, the fraction is dropped.
FormatRFC3339(t) == t \div TicksPerSecond
\* time.Parse(time.RFC3339, s)
ParseRFC3339(s) == s * TicksPerSecond

\* The split-name lists a store is configured with have 1..MaxSplits names.
AllNames == <<"A", "B", "C", "D">>
NameLists == { SubSeq(AllNames, 1, n) : n \in 1..MaxSplits }

----------------------------------------------------------------------------
(* The store: rows and statements. *)

\* INSERT INTO runs (...): one row, id = its position in the table.
RunRow(t, c, st, et, comp, ispb, num) ==
    [ title |-> t, category |-> c, start_time |-> st, end_time |-> et,
      completed |-> comp, is_pb |-> ispb, attempt_num |-> num ]

\* INSERT INTO splits (run_id, split_index, split_name, duration_ns)
SplitRow(id, idx, name, dur) ==
    [ run_id |-> id, split_index |-> idx, split_name |-> name, duration_ns |-> dur ]

\* A fault of ExecUpdateCounters: the counters of the config row are not
\* written.
ExecUpdateCountersSkipped(d, a, c) == d

\* UPDATE config SET attempts = ?, completed = ? WHERE id = 1
ExecUpdateCounters(d, a, c) ==
    [d EXCEPT !.config.attempts = a, !.config.completed = c]

\* INSERT INTO runs ...
ExecInsertRun(d, row) == [d EXCEPT !.runs = Append(@, row)]

\* A fault of ExecClearPB: the previous flag is left set.
ExecClearPBSkipped(d) == d

\* UPDATE runs SET is_pb = 0 WHERE is_pb = 1
ExecClearPB(d) ==
    [d EXCEPT !.runs = [k \in DOMAIN @ |-> [@[k] EXCEPT !.is_pb = FALSE]]]

\* UPDATE runs SET is_pb = 1 WHERE id = ?
ExecSetPB(d, id) ==
    [d EXCEPT !.runs = [k \in DOMAIN @ |->
                          IF k = id THEN [@[k] EXCEPT !.is_pb = TRUE] ELSE @[k]]]

\* INSERT INTO splits ...
ExecInsertSplit(d, row) == [d EXCEPT !.splits = Append(@, row)]

\* A fault of Rollback: the statements executed before the failure stay.
RollbackKeepingWrites(before, tx) == tx

\* tx.Commit(): the statements of the transaction become the store.
Commit(before, tx) == tx

\* defer tx.Rollback(): a transaction that did not commit leaves the store
\* as it was at Begin.
Rollback(before, tx) == before

\* A write statement that fails: step names the statement, i the iteration
\* for a statement inside a loop.  NoFail: every statement succeeds.
Fail(step, i) == [step |-> step, i |-> i]
NoFail == Fail("none", 0)

Min(a, b) == IF a <= b THEN a ELSE b

----------------------------------------------------------------------------
(* History queries. *)

\* ORDER BY split_index over rows whose indices are distinct.
OrderByIndex(rows) ==
    LET n == Len(rows)
        Rank(j) == Cardinality({ m \in 1..n :
                        rows[m].split_index < rows[j].split_index })
    IN [ k \in 1..n |-> rows[CHOOSE j \in 1..n : Rank(j) = k - 1] ]

\* loadPersonalBest: the run with is_pb = 1 AND completed = 1 (LIMIT 1: the
\* first in rowid order), with its splits ordered by index; nil when none.
loadPersonalBest(d) ==
    LET ids == { k \in DOMAIN d.runs : d.runs[k].is_pb /\ d.runs[k].completed }
    IN IF ids = {} THEN Nil
       ELSE LET id   == CHOOSE k \in ids : \A j \in ids : k <= j
                row  == d.runs[id]
                rows == OrderByIndex(SelectSeq(d.splits, LAMBDA r : r.run_id = id))
            IN Ptr([ ID |-> id, Title |-> row.title, Category |-> row.category,
                     StartTime |-> ParseRFC3339(row.start_time),
                     EndTime |-> ParseRFC3339(row.end_time),
                     Completed |-> row.completed, IsPB |-> row.is_pb,
                     AttemptNum |-> row.attempt_num,
                     Splits |-> [ k \in 1..Len(rows) |->
                                    [ Name |-> rows[k].split_name,
                                      Duration |-> rows[k].duration_ns,
                                      BestSegment |-> 0 ] ] ])

\* The scan of ComputeBestSegments: for Go index idx, the least duration over
\* the split rows of completed runs at that index, BigDuration when none.
BestSegmentAt(d, idx) ==
    LET durs == { d.splits[k].duration_ns : k \in
                    { j \in DOMAIN d.splits :
                        /\ d.runs[d.splits[j].run_id].completed
                        /\ d.splits[j].split_index = idx } }
        below == { x \in durs : x < BigDuration }
    IN IF below = {} THEN BigDuration
       ELSE CHOOSE x \in below : \A y \in below : x <= y

\* ComputeBestSegments: fills rm.pb.Splits[i].BestSegment from a slice of
\* len(rm.splitNames) minima; indexing that slice past its end panics.
ComputeBestSegments(m, d) ==
    IF m.pb = Nil \/ Len(Deref(m.pb).Splits) = 0
    THEN [rm |-> m, panic |-> FALSE]
    ELSE LET numSplits == Len(m.splitNames)
             pb        == Deref(m.pb)
             filled    == Min(Len(pb.Splits), numSplits)
             newSplits == [ k \in 1..Len(pb.Splits) |->
                              IF k <= filled
                              THEN [pb.Splits[k] EXCEPT
                                      !.BestSegment = BestSegmentAt(d, k - 1)]
                              ELSE pb.Splits[k] ]
         IN [ rm    |-> [m EXCEPT !.pb = Ptr([pb EXCEPT !.Splits = newSplits])],
              panic |-> Len(pb.Splits) > numSplits ]

\* for _, split := range rm.pb.Splits { pbTotalTime += split.Duration }
PBTotal(p) == SumSeq([ k \in 1..Len(Deref(p).Splits) |-> Deref(p).Splits[k].Duration ])

----------------------------------------------------------------------------
(* The save protocol. *)

RECURSIVE InsertSplits(_, _, _, _, _)
\* The first n iterations of the loop "for i, split := range rm.splits".
InsertSplits(d, runID, names, durs, n) ==
    IF n = 0 THEN d
    ELSE ExecInsertSplit(InsertSplits(d, runID, names, durs, n - 1),
                         SplitRow(runID, n - 1, names[n], durs[n]))

\* A fault of IsNewPB: an abandoned run is compared with the PB as well.
IsNewPBAnyRun(m, completed) ==
    IF m.pb = Nil THEN TRUE ELSE SumSeq(m.splits) < PBTotal(m.pb)

\* A fault of IsNewPB: a run that ties the PB is promoted too.
IsNewPBOnTie(m, completed) ==
    /\ completed
    /\ IF m.pb = Nil THEN TRUE ELSE SumSeq(m.splits) <= PBTotal(m.pb)

\* The promotion decision of saveRun: only a completed run, against the PB
\* held in memory.
IsNewPB(m, completed) ==
    /\ completed
    /\ IF m.pb = Nil THEN TRUE ELSE SumSeq(m.splits) < PBTotal(m.pb)

\* What saveRun returns to its caller: the manager, the store, the error
\* class, and whether it panicked.
Outcome(m, d, e, p) == [rm |-> m, db |-> d, err |-> e, panic |-> p]

\* A fault of AfterCommit: the PB is not reloaded after a promotion.
AfterCommitNoReload(m, d, isPB) == Outcome(m, d, "nil", FALSE)

\* After a commit: reload the PB and recompute the best segments if the run
\* was promoted.
AfterCommit(m, d, isPB) ==
    IF isPB
    THEN LET c == ComputeBestSegments([m EXCEPT !.pb = loadPersonalBest(d)], d)
         IN Outcome(c.rm, d, IF c.panic THEN "panic" ELSE "nil", c.panic)
    ELSE Outcome(m, d, "nil", FALSE)

\* saveRun(completed), with the statement `fail` failing if it is executed.
saveRun(m, d, completed, fail) ==
    IF fail.step = "begin" THEN Outcome(m, d, "PersistenceFailure", FALSE)
    ELSE
    LET m1    == [m EXCEPT !.attempts = @ + 1,
                           !.completedRuns = IF completed THEN @ + 1 ELSE @]
        tx1   == ExecUpdateCounters(d, m1.attempts, m1.completedRuns)
        tx2   == ExecInsertRun(tx1,
                    RunRow(m.title, m.category, FormatRFC3339(m.startTime),
                           FormatRFC3339(now), completed, FALSE, m1.attempts))
        runID == Len(tx2.runs)
        isPB  == IsNewPB(m, completed)
        tx3   == IF isPB THEN ExecClearPB(tx2) ELSE tx2
        tx4   == IF isPB THEN ExecSetPB(tx3, runID) ELSE tx3
        nSplits  == Len(m.splits)
        \* the iteration whose Exec fails, nSplits when none does
        failIdx  == IF fail.step = "split" /\ fail.i < nSplits THEN fail.i ELSE nSplits
        \* the iteration where rm.splitNames[i] is out of range, nSplits when none
        panicIdx == Min(nSplits, Len(m.splitNames))
        tx5   == InsertSplits(tx4, runID, m.splitNames, m.splits,
                              Min(failIdx, panicIdx))
    IN CASE fail.step = "config"          -> Outcome(m1, Rollback(d, d), "PersistenceFailure", FALSE)
         [] fail.step = "run"             -> Outcome(m1, Rollback(d, tx1), "PersistenceFailure", FALSE)
         [] fail.step = "pbreset" /\ isPB -> Outcome(m1, Rollback(d, tx2), "PersistenceFailure", FALSE)
         [] fail.step = "pbset" /\ isPB   -> Outcome(m1, Rollback(d, tx3), "PersistenceFailure", FALSE)
         [] OTHER ->
            IF panicIdx < nSplits /\ panicIdx <= failIdx
            THEN Outcome(m1, Rollback(d, tx5), "panic", TRUE)
            ELSE IF failIdx < nSplits
            THEN Outcome(m1, Rollback(d, tx5), "PersistenceFailure", FALSE)
            ELSE IF fail.step = "commit"
            THEN Outcome(m1, Rollback(d, tx5), "PersistenceFailure", FALSE)
            ELSE AfterCommit(m1, Commit(d, tx5), isPB)

\* The statements of saveRun that can fail.
SaveFails ==
    { Fail(s, 0) : s \in {"none", "begin", "config", "run", "pbreset", "pbset", "commit"} }
    \cup { Fail("split", i) : i \in 0..MaxSplits }

\* The failing statement is one that saveRun executes for the manager m:
\* the flag updates only on promotion, a split insert only for a recorded
\* duration that has a name.
Executes(m, completed, fail) ==
    CASE fail.step \in {"pbreset", "pbset"} -> IsNewPB(m, completed)
      [] fail.step = "split" -> fail.i < Min(Len(m.splits), Len(m.splitNames))
      [] OTHER -> TRUE

\* A save is within the bounds of the model.
CanSave == Len(db.runs) < MaxRuns /\ rm.attempts < MaxAttempts

----------------------------------------------------------------------------
(* The lifecycle. *)

Result(o, r, e) == [op |-> o, ret |-> r, err |-> e]

\* The script position: phase "split" after StartRun and k successful Splits;
\* "undo" after j of the k Undos; "resplit" after j of the k further Splits;
\* "refused" when one of the k Undos returned an error; "off" when the calls
\* left the script.  "untracked" is never left.
Scn(p, k, j) == [phase |-> p, k |-> k, j |-> j]
Untracked == Scn("untracked", 0, 0)
Off == Scn("off", 0, 0)

Observe(s, res) ==
    IF s.phase = "untracked" \/ res.op = "Tick" THEN s
    ELSE IF res.op = "StartRun" THEN Scn("split", 0, 0)
    ELSE IF res.op = "Split" /\ res.err = "nil"
    THEN CASE s.phase = "split"                  -> Scn("split", s.k + 1, 0)
           [] s.phase = "undo" /\ s.j = s.k      -> Scn("resplit", s.k, 1)
           [] s.phase = "resplit" /\ s.j < s.k   -> Scn("resplit", s.k, s.j + 1)
           [] OTHER                              -> Off
    ELSE IF res.op = "UndoSplit"
    THEN CASE s.phase = "split" /\ s.k > 0       ->
                IF res.err = "nil" THEN Scn("undo", s.k, 1) ELSE Scn("refused", s.k, 0)
           [] s.phase = "undo" /\ s.j < s.k      ->
                IF res.err = "nil" THEN Scn("undo", s.k, s.j + 1) ELSE Scn("refused", s.k, s.j)
           [] OTHER                              -> Off
    ELSE Off

\* The mode of the attempt, from the two flags of the RunManager.
Mode(m) == IF m.isRunning THEN "Running"
           ELSE IF m.isCompleted THEN "Completed" ELSE "Idle"

N == Len(rm.splitNames)

\* The clock advances by one tick between two calls.
Tick ==
    /\ ~crashed
    /\ now < MaxTime
    /\ now' = now + 1
    /\ last' = Result("Tick", FALSE, "nil")
    /\ UNCHANGED <<rm, db, crashed>>
    /\ scn' = Observe(scn, last')

\* A fault of StartRun: the completed flag of the previous attempt is kept.
StartRunKeepingCompleted ==
    /\ ~crashed
    /\ rm' = [rm EXCEPT !.isRunning = TRUE, !.startTime = now,
                        !.splitStartTime = now, !.currentSplit = 0,
                        !.splits = <<>>]
    /\ last' = Result("StartRun", FALSE, "nil")
    /\ UNCHANGED <<db, now, crashed>>
    /\ scn' = Observe(scn, last')

\* A fault of StartRun: the durations of the previous attempt are kept.
StartRunKeepingSplits ==
    /\ ~crashed
    /\ rm' = [rm EXCEPT !.isRunning = TRUE, !.startTime = now,
                        !.splitStartTime = now, !.currentSplit = 0,
                        !.isCompleted = FALSE]
    /\ last' = Result("StartRun", FALSE, "nil")
    /\ UNCHANGED <<db, now, crashed>>
    /\ scn' = Observe(scn, last')

StartRun ==
    /\ ~crashed
    /\ rm' = [rm EXCEPT !.isRunning = TRUE, !.startTime = now,
                        !.splitStartTime = now, !.currentSplit = 0,
                        !.splits = <<>>, !.isCompleted = FALSE]
    /\ last' = Result("StartRun", FALSE, "nil")
    /\ UNCHANGED <<db, now, crashed>>
    /\ scn' = Observe(scn, last')

\* A fault of SplitRefused: the index is not compared with the name count.
SplitRefusedNotRunning(m) == ~m.isRunning

\* The guard of Split: "run not active or all splits completed".
SplitRefused(m) == ~m.isRunning \/ m.currentSplit >= Len(m.splitNames)

\* A fault of IsLastSplit: the last index taken to be len(rm.splitNames).
IsLastSplitOffByOne(m) == m.currentSplit = Len(m.splitNames)

\* isLastSplit := rm.currentSplit == len(rm.splitNames)-1
IsLastSplit(m) == m.currentSplit = Len(m.splitNames) - 1

Split(fail) ==
    /\ ~crashed
    /\ IF SplitRefused(rm)
       THEN /\ fail = NoFail
            /\ last' = Result("Split", FALSE, "InvalidState")
            /\ UNCHANGED <<rm, db, now, crashed>>
       ELSE LET rm1 == [rm EXCEPT !.splits = Append(@, now - rm.splitStartTime)]
            IN IF IsLastSplit(rm)
               THEN LET rm2 == [rm1 EXCEPT !.isRunning = FALSE, !.isCompleted = TRUE]
                        s   == saveRun(rm2, db, TRUE, fail)
                    IN /\ CanSave
                       /\ Executes(rm2, TRUE, fail)
                       /\ rm' = s.rm
                       /\ db' = s.db
                       /\ crashed' = s.panic
                       /\ last' = Result("Split", TRUE, s.err)
                       /\ UNCHANGED now
               ELSE /\ fail = NoFail
                    /\ rm' = [rm1 EXCEPT !.currentSplit = @ + 1,
                                         !.splitStartTime = now]
                    /\ last' = Result("Split", FALSE, "nil")
                    /\ UNCHANGED <<db, now, crashed>>
    /\ scn' = Observe(scn, last')

\* A fault of UndoRefused: a finished attempt can be rewound.
UndoRefusedNoSplits(m) == (~m.isRunning /\ ~m.isCompleted) \/ Len(m.splits) = 0

\* The guard of UndoSplit: "run not active or no splits recorded".
UndoRefused(m) == ~m.isRunning \/ Len(m.splits) = 0

\* A fault of Rewound: the current split index is not moved back.
RewoundKeepingIndex(m) ==
    [m EXCEPT !.splits = SubSeq(@, 1, Len(@) - 1),
              !.splitStartTime = now,
              !.isCompleted = FALSE]

\* "Remove last split and go back"
Rewound(m) ==
    [m EXCEPT !.splits = SubSeq(@, 1, Len(@) - 1),
              !.currentSplit = @ - 1,
              !.splitStartTime = now,
              !.isCompleted = FALSE]

UndoSplit ==
    /\ ~crashed
    /\ IF UndoRefused(rm)
       THEN /\ last' = Result("UndoSplit", FALSE, "InvalidState")
            /\ UNCHANGED <<rm, db, now, crashed>>
       ELSE /\ rm' = Rewound(rm)
            /\ last' = Result("UndoSplit", FALSE, "nil")
            /\ UNCHANGED <<db, now, crashed>>
    /\ scn' = Observe(scn, last')

\* "Reset everything" at the end of ResetRun.
Cleared(m) == [m EXCEPT !.isRunning = FALSE, !.currentSplit = 0,
                        !.splits = <<>>, !.isCompleted = FALSE]

ResetRun(fail) ==
    /\ ~crashed
    /\ IF rm.isRunning
       THEN LET s == saveRun(rm, db, FALSE, fail)
            IN /\ CanSave
               /\ Executes(rm, FALSE, fail)
               /\ rm' = IF s.err = "nil" THEN Cleared(s.rm) ELSE s.rm
               /\ db' = s.db
               /\ crashed' = s.panic
               /\ last' = Result("ResetRun", FALSE, s.err)
               /\ UNCHANGED now
       ELSE /\ fail = NoFail
            /\ rm' = Cleared(rm)
            /\ last' = Result("ResetRun", FALSE, "nil")
            /\ UNCHANGED <<db, now, crashed>>
    /\ scn' = Observe(scn, last')

\* A fault of GetCurrentTime: a Running attempt is timed from the start of
\* its current split.
GetCurrentTimeSinceSplit(m, t) ==
    IF ~m.isRunning /\ Len(m.splits) = 0 THEN 0
    ELSE IF m.isCompleted THEN SumSeq(m.splits)
    ELSE IF m.isRunning THEN t - m.splitStartTime
    ELSE 0

\* GetCurrentTime, read when the clock shows t.
GetCurrentTime(m, t) ==
    IF ~m.isRunning /\ Len(m.splits) = 0 THEN 0
    ELSE IF m.isCompleted THEN SumSeq(m.splits)
    ELSE IF m.isRunning THEN t - m.startTime
    ELSE 0

\* GetCurrentSplitTime, read when the clock shows t.
GetCurrentSplitTime(m, t) ==
    IF ~m.isRunning \/ m.currentSplit >= Len(m.splitNames) THEN 0
    ELSE t - m.splitStartTime

\* The fields of the RunManager in the order the statements of an operation
\* assign them (in Split, the save of the final branch lies between the
\* flags and the fields of the other branch).
AssignOrder(op) ==
    CASE op = "StartRun"  -> <<"isRunning", "startTime", "splitStartTime",
                               "currentSplit", "splits", "isCompleted">>
      [] op = "Split"     -> <<"splits", "isRunning", "isCompleted", "attempts",
                               "completedRuns", "pb", "currentSplit",
                               "splitStartTime">>
      [] op = "UndoSplit" -> <<"splits", "currentSplit", "splitStartTime",
                               "isCompleted">>
      [] op = "ResetRun"  -> <<"attempts", "completedRuns", "isRunning",
                               "currentSplit", "splits", "isCompleted">>

\* What a reader on another goroutine can find while op takes the manager
\* from before to after: the first j assignments done, the others not yet.
ViewsDuring(op, before, after) ==
    { [ f \in DOMAIN before |->
          IF \E i \in 1..j : AssignOrder(op)[i] = f THEN after[f] ELSE before[f] ] :
      j \in 0..Len(AssignOrder(op)) }

\* A fault of IsBetterThanPB: an attempt that ties the PB counts as better.
IsBetterThanPBOnTie(m) ==
    IF ~m.isCompleted THEN FALSE
    ELSE IF m.pb = Nil THEN TRUE
    ELSE SumSeq(m.splits) <= PBTotal(m.pb)

\* IsBetterThanPB: the current attempt is completed and its total is less
\* than the total of the PB held in memory, or there is no PB.
IsBetterThanPB(m) ==
    IF ~m.isCompleted THEN FALSE
    ELSE IF m.pb = Nil THEN TRUE
    ELSE SumSeq(m.splits) < PBTotal(m.pb)

\* SaveAsPB: flag the completed run with the largest id as the PB.
SaveAsPB(fail) ==
    /\ ~crashed
    /\ UNCHANGED now
    /\ IF ~rm.isCompleted
       THEN /\ fail = NoFail
            /\ last' = Result("SaveAsPB", FALSE, "InvalidState")
            /\ UNCHANGED <<rm, db, crashed>>
       ELSE LET tx1 == ExecClearPB(db)
                ids == { k \in DOMAIN tx1.runs : tx1.runs[k].completed }
                lastCompletedID == CHOOSE k \in ids : \A j \in ids : j <= k
                tx2 == ExecSetPB(tx1, lastCompletedID)
                failed(e, tx) == /\ db' = Rollback(db, tx)
                                 /\ last' = Result("SaveAsPB", FALSE, e)
                                 /\ UNCHANGED <<rm, crashed>>
            IN CASE fail.step = "begin"   -> failed("PersistenceFailure", db)
                 [] fail.step = "pbreset" -> failed("PersistenceFailure", db)
                 [] fail.step \notin {"begin", "pbreset"} /\ ids = {}
                                          -> failed("NoRows", tx1)
                 [] fail.step = "pbset" /\ ids # {}
                                          -> failed("PersistenceFailure", tx1)
                 [] fail.step = "commit" /\ ids # {}
                                          -> failed("PersistenceFailure", tx2)
                 [] OTHER ->
                    LET d == Commit(db, tx2)
                        c == ComputeBestSegments(
                                 [rm EXCEPT !.pb = loadPersonalBest(d)], d)
                    IN /\ db' = d
                       /\ rm' = c.rm
                       /\ crashed' = c.panic
                       /\ last' = Result("SaveAsPB", FALSE,
                                         IF c.panic THEN "panic" ELSE "nil")
    /\ scn' = Observe(scn, last')

\* The statements of SaveAsPB that can fail.
OverrideFails == { Fail(s, 0) : s \in {"none", "begin", "pbreset", "pbset", "commit"} }

----------------------------------------------------------------------------
(* The importer. *)

\* A time string of the import document, as the fields strings.Split(s, ":")
\* yields.  A field is text that fmt.Sscanf("%f") reads as the number val
\* (ok), or text it cannot read; val counts 1/TicksPerSecond units.
Num(v) == [ok |-> TRUE, val |-> v]
Junk == [ok |-> FALSE, val |-> 0]

\* fmt.Sscanf(field, "%f", &x) with x declared just before: x keeps its zero
\* value when the field does not scan; the error is not looked at.
Sscanf(field) == IF field.ok THEN field.val ELSE 0

\* minutes*60*float64(time.Second) + seconds*float64(time.Second), in ticks:
\* two fields are minutes and seconds, any other number of fields is seconds
\* read from the first.
ClockTicks(parts) ==
    LET minutes == IF Len(parts) = 2 THEN Sscanf(parts[1]) ELSE 0
        seconds == IF Len(parts) = 2 THEN Sscanf(parts[2]) ELSE Sscanf(parts[1])
    IN minutes * SecondsPerMinute + seconds

\* A fault of SegmentDurations: the clock values are stored as they are.
SegmentDurationsCumulative(times, n) == [ i \in 1..n |-> ClockTicks(times[i]) ]

RECURSIVE SegmentDurations(_, _)
\* The first n entries of the splits slice of ImportFromJSON: the first is
\* its own clock value, each later one its clock value minus totalTime.
SegmentDurations(times, n) ==
    IF n = 0 THEN <<>>
    ELSE LET prev      == SegmentDurations(times, n - 1)
             totalTime == SumSeq(prev)
             current   == ClockTicks(times[n])
         IN Append(prev, IF n = 1 THEN current ELSE current - totalTime)

\* 24 * time.Hour, in ticks.
DayTicks == 24 * 60 * SecondsPerMinute * TicksPerSecond

\* UPDATE config SET title = ?, category = ?, attempts = ?, completed = ?
ExecUpdateConfigAll(d, doc) ==
    [d EXCEPT !.config = [ title |-> doc.Title, category |-> doc.Category,
                           attempts |-> doc.Attempts, completed |-> doc.Completed ]]

\* DELETE FROM split_names
ExecDeleteNames(d) == [d EXCEPT !.split_names = <<>>]

\* The first n iterations of "INSERT INTO split_names (name, display_order)".
ExecInsertNames(d, names, n) ==
    [d EXCEPT !.split_names = @ \o SubSeq(names, 1, n)]

\* The document has a personal-best block with at least one split.
HasPB(doc) == doc.PersonalBest # Nil /\ Len(Deref(doc.PersonalBest).Splits) > 0

\* The failing statement is one that the import of doc executes.
ImportExecutes(doc, fail) ==
    CASE fail.step = "name"  -> fail.i < Len(doc.SplitNames)
      [] fail.step = "run"   -> HasPB(doc)
      [] fail.step = "split" ->
            /\ HasPB(doc)
            /\ fail.i < Min(Len(Deref(doc.PersonalBest).Splits), Len(doc.SplitNames))
      [] OTHER -> TRUE

ImportFromJSON(doc, fail) ==
    /\ ~crashed
    /\ HasPB(doc) => Len(db.runs) < MaxRuns
    /\ ImportExecutes(doc, fail)
    /\ UNCHANGED now
    /\ LET tx1 == ExecUpdateConfigAll(db, doc)
           tx2 == ExecDeleteNames(tx1)
           nNames   == Len(doc.SplitNames)
           nameFail == IF fail.step = "name" /\ fail.i < nNames THEN fail.i ELSE nNames
           tx3 == ExecInsertNames(tx2, doc.SplitNames, nameFail)
           tx4 == ExecClearPB(tx3)
           pbd == Deref(doc.PersonalBest)
           splits == SegmentDurations(pbd.Splits, Len(pbd.Splits))
           \* startTime := time.Now().Add(-24 * time.Hour): a placeholder
           startTime == now - DayTicks
           endTime   == startTime + SumSeq(splits)
           tx5 == ExecInsertRun(tx4,
                     RunRow(doc.Title, doc.Category, FormatRFC3339(startTime),
                            FormatRFC3339(endTime), TRUE, TRUE, pbd.Attempt))
           runID    == Len(tx5.runs)
           nSplits  == IF HasPB(doc) THEN Len(splits) ELSE 0
           failIdx  == IF fail.step = "split" /\ fail.i < nSplits THEN fail.i ELSE nSplits
           panicIdx == Min(nSplits, nNames)
           tx6 == IF HasPB(doc)
                  THEN InsertSplits(tx5, runID, doc.SplitNames, splits,
                                    Min(failIdx, panicIdx))
                  ELSE tx4
           failed(e, tx, p) == /\ db' = Rollback(db, tx)
                               /\ crashed' = p
                               /\ last' = Result("ImportFromJSON", FALSE, e)
                               /\ UNCHANGED rm
       IN CASE fail.step = "read"     -> failed("MalformedInput", db, FALSE)
            [] fail.step = "begin"    -> failed("PersistenceFailure", db, FALSE)
            [] fail.step = "config"   -> failed("PersistenceFailure", db, FALSE)
            [] fail.step = "delnames" -> failed("PersistenceFailure", tx1, FALSE)
            [] fail.step = "name" /\ nameFail < nNames
                                      -> failed("PersistenceFailure", tx3, FALSE)
            [] fail.step = "pbreset"  -> failed("PersistenceFailure", tx3, FALSE)
            [] fail.step = "run" /\ HasPB(doc)
                                      -> failed("PersistenceFailure", tx4, FALSE)
            [] OTHER ->
               IF panicIdx < nSplits /\ panicIdx <= failIdx
               THEN failed("panic", tx6, TRUE)
               ELSE IF failIdx < nSplits
               THEN failed("PersistenceFailure", tx6, FALSE)
               ELSE IF fail.step = "commit"
               THEN failed("PersistenceFailure", tx6, FALSE)
               ELSE LET d == Commit(db, tx6)
                    IN /\ db' = d
                       /\ rm' = [rm EXCEPT !.title = doc.Title,
                                           !.category = doc.Category,
                                           !.attempts = doc.Attempts,
                                           !.completedRuns = doc.Completed,
                                           !.splitNames = doc.SplitNames,
                                           !.pb = loadPersonalBest(d)]
                       /\ crashed' = FALSE
                       /\ last' = Result("ImportFromJSON", FALSE, "nil")
    /\ scn' = Observe(scn, last')

\* The statements of ImportFromJSON that can fail.
ImportFails ==
    { Fail(s, 0) : s \in {"none", "read", "begin", "config", "delnames",
                          "pbreset", "run", "commit"} }
    \cup { Fail(s, i) : s \in {"name", "split"}, i \in 0..(MaxSplits - 1) }

\* An import document.
Doc(names, pb) ==
    [ Title |-> "Imported", Category |-> "Any%", Attempts |-> 1, Completed |-> 1,
      SplitNames |-> names, PersonalBest |-> pb ]

\* A personal-best block: an attempt number and the clock strings.
PBBlock(times) == Ptr([Attempt |-> 1, Splits |-> times])

\* The documents imported: without a personal best; with one whose clock
\* strings read 0.5 s and 1.0 s; with one that has more splits than names;
\* with one whose second clock string does not scan; with an empty
\* personal-best block; and the README's "0:49.000", "2:46.000".
ImportDocs ==
    { Doc(<<"A">>, Nil),
      Doc(<<"A", "B">>, PBBlock(<< <<Num(0), Num(1)>>, <<Num(2)>> >>)),
      Doc(<<"A">>, PBBlock(<< <<Num(1)>>, <<Num(1)>> >>)),
      Doc(<<"A", "B">>, PBBlock(<< <<Num(1)>>, <<Junk>> >>)),
      Doc(<<"A">>, PBBlock(<<>>)),
      Doc(<<"A", "B">>, PBBlock(<< <<Num(0), Num(98)>>, <<Num(4), Num(92)>> >>)) }

----------------------------------------------------------------------------
(* The configuration mutators. *)

\* A fault of ExecUpdateTitle: the saved runs follow the configuration.
ExecUpdateTitleLinked(d, title, category) ==
    [d EXCEPT !.config.title = title, !.config.category = category,
              !.runs = [k \in DOMAIN @ |->
                          [@[k] EXCEPT !.title = title, !.category = category]]]

\* UPDATE config SET title = ?, category = ? WHERE id = 1
ExecUpdateTitle(d, title, category) ==
    [d EXCEPT !.config.title = title, !.config.category = category]

\* UpdateConfig: one statement outside any transaction, then the fields.
UpdateConfig(title, category, fail) ==
    /\ ~crashed
    /\ UNCHANGED <<now, crashed>>
    /\ IF fail.step = "config"
       THEN /\ last' = Result("UpdateConfig", FALSE, "PersistenceFailure")
            /\ UNCHANGED <<rm, db>>
       ELSE /\ db' = ExecUpdateTitle(db, title, category)
            /\ rm' = [rm EXCEPT !.title = title, !.category = category]
            /\ last' = Result("UpdateConfig", FALSE, "nil")
    /\ scn' = Observe(scn, last')

\* The statements of UpdateConfig that can fail.
UpdateConfigFails == { Fail(s, 0) : s \in {"none", "config"} }

\* UpdateSplitNames: the list is replaced in one transaction, and
\* rm.splitNames is assigned after the commit.
UpdateSplitNames(names, fail) ==
    /\ ~crashed
    /\ fail.step = "name" => fail.i < Len(names)
    /\ UNCHANGED <<now, crashed>>
    /\ LET tx1 == ExecDeleteNames(db)
           nameFail == IF fail.step = "name" THEN fail.i ELSE Len(names)
           tx2 == ExecInsertNames(tx1, names, nameFail)
           failed(tx) == /\ db' = Rollback(db, tx)
                         /\ last' = Result("UpdateSplitNames", FALSE, "PersistenceFailure")
                         /\ UNCHANGED rm
       IN CASE fail.step = "begin"    -> failed(db)
            [] fail.step = "delnames" -> failed(db)
            [] fail.step = "name"     -> failed(tx2)
            [] fail.step = "commit"   -> failed(tx2)
            [] OTHER -> /\ db' = Commit(db, tx2)
                        /\ rm' = [rm EXCEPT !.splitNames = names]
                        /\ last' = Result("UpdateSplitNames", FALSE, "nil")
    /\ scn' = Observe(scn, last')

\* The statements of UpdateSplitNames that can fail.
UpdateNamesFails ==
    { Fail(s, 0) : s \in {"none", "begin", "delnames", "commit"} }
    \cup { Fail("name", i) : i \in 0..(MaxSplits - 1) }

\* The lists passed to UpdateSplitNames: one name with another text, and the
\* empty list.
UpdateNameLists == { <<"C">>, <<>> }

----------------------------------------------------------------------------
(* Construction. *)

\* A store after initDatabase and loadConfig's defaults for the config row,
\* holding the split-name list L and no run.
EmptyStore(L) ==
    [ config      |-> [ title |-> "New Speedrun", category |-> "Any%",
                        attempts |-> 0, completed |-> 0 ],
      split_names |-> L,
      runs        |-> <<>>,
      splits      |-> <<>> ]

\* NewRunManager: the fields are loaded from the store, the attempt state is
\* the zero value.
NewRunManager(d) ==
    ComputeBestSegments(
        [ title |-> d.config.title, category |-> d.config.category,
          attempts |-> d.config.attempts, completedRuns |-> d.config.completed,
          splitNames |-> d.split_names, splits |-> <<>>,
          pb |-> loadPersonalBest(d),
          startTime |-> 0, splitStartTime |-> 0, isRunning |-> FALSE,
          currentSplit |-> 0, isCompleted |-> FALSE ], d)

Init ==
    /\ db \in { EmptyStore(L) : L \in NameLists }
    /\ rm = NewRunManager(db).rm
    /\ now = 0
    /\ crashed = FALSE
    /\ last = Result("NewRunManager", FALSE, "nil")
    /\ scn = Untracked

\* Initial states with the script position recorded, and with one more name
\* in the longest list, so that two Splits can be undone before the last.
InitScenario ==
    /\ db \in { EmptyStore(SubSeq(AllNames, 1, n)) : n \in 1..(MaxSplits + 1) }
    /\ rm = NewRunManager(db).rm
    /\ now = 0
    /\ crashed = FALSE
    /\ last = Result("NewRunManager", FALSE, "nil")
    /\ scn = Off

Next ==
    \/ Tick
    \/ StartRun
    \/ \E fail \in SaveFails : Split(fail)
    \/ UndoSplit
    \/ \E fail \in SaveFails : ResetRun(fail)
    \/ \E fail \in OverrideFails : SaveAsPB(fail)

\* The lifecycle, the save protocol and the override.
Spec == Init /\ [][Next]_vars

\* The same, with the script position recorded.
SpecScenario == InitScenario /\ [][Next]_vars

NextImport ==
    \/ Next
    \/ \E doc \in ImportDocs, fail \in ImportFails : ImportFromJSON(doc, fail)

\* The same as Spec, with imports.
SpecImport == Init /\ [][NextImport]_vars

NextConfig ==
    \/ Next
    \/ \E fail \in UpdateConfigFails : UpdateConfig("Renamed", "100%", fail)
    \/ \E names \in UpdateNameLists, fail \in UpdateNamesFails :
          UpdateSplitNames(names, fail)

\* The same as Spec, with the configuration mutators.
SpecConfig == Init /\ [][NextConfig]_vars

NextReliable ==
    \/ Tick
    \/ StartRun
    \/ Split(NoFail)
    \/ UndoSplit
    \/ ResetRun(NoFail)
    \/ SaveAsPB(NoFail)

\* The lifecycle and the override on a store whose statements all succeed.
SpecReliable == Init /\ [][NextReliable]_vars

NextAutomatic ==
    \/ Tick
    \/ StartRun
    \/ Split(NoFail)
    \/ UndoSplit
    \/ ResetRun(NoFail)

\* The same, without the override: the PB changes by promotion only.
SpecAutomatic == Init /\ [][NextAutomatic]_vars

----------------------------------------------------------------------------
(* Vocabulary of the claims. *)

\* The ids of the run rows flagged is_pb.
FlaggedPB(d) == { k \in DOMAIN d.runs : d.runs[k].is_pb }

\* The split rows of run id, and the sum of their durations.
SplitsOf(d, id) == SelectSeq(d.splits, LAMBDA r : r.run_id = id)
RunTotal(d, id) ==
    SumSeq([ k \in 1..Len(SplitsOf(d, id)) |-> SplitsOf(d, id)[k].duration_ns ])

\* The split rows saveRun writes for run id from the manager m.
RowsFor(m, id) ==
    [ i \in 1..Len(m.splits) |-> SplitRow(id, i - 1, m.splitNames[i], m.splits[i]) ]

\* The runs table grew by exactly one row, the earlier rows being unchanged.
OneRunAdded == /\ Len(db'.runs) = Len(db.runs) + 1
               /\ SubSeq(db'.runs, 1, Len(db.runs)) = db.runs

\* The runs table grew by exactly one row, the earlier rows being unchanged
\* in every column other than is_pb.
OneRunAddedFlagsAside ==
    /\ Len(db'.runs) = Len(db.runs) + 1
    /\ \A k \in DOMAIN db.runs :
          [db'.runs[k] EXCEPT !.is_pb = FALSE] = [db.runs[k] EXCEPT !.is_pb = FALSE]

\* This step is a final Split whose save succeeded.
CompletedSaveStep ==
    /\ last' = Result("Split", TRUE, "nil")
    /\ Len(db'.runs) = Len(db.runs) + 1

\* This step is a ResetRun of a Running attempt whose save succeeded.
AbandonedSaveStep ==
    /\ rm.isRunning
    /\ last' = Result("ResetRun", FALSE, "nil")

----------------------------------------------------------------------------
(* C1 *)

\* C1: after StartRun and k successful Splits in a row, with N names
\* configured: while k < N the mode is Running, the current split index is k
\* and k durations are recorded, and the Split just made returned not-final;
\* at k = N the mode is Completed and the Split just made returned final; a
\* further Split never succeeds (k never exceeds N), so Completed is entered
\* once.
C1_StartThenNSplits ==
    scn.phase = "split" =>
        /\ scn.k <= N
        /\ scn.k < N => /\ Mode(rm) = "Running"
                        /\ rm.currentSplit = scn.k
                        /\ Len(rm.splits) = scn.k
        /\ scn.k = N => /\ Mode(rm) = "Completed"
                        /\ Len(rm.splits) = N
        /\ last.op = "Split" => last.err = "nil" /\ last.ret = (scn.k = N)

\* A three-split attempt that has just been completed by its third Split.
C1_Witness ==
    /\ scn = Scn("split", 3, 0)
    /\ N = 3
    /\ last = Result("Split", TRUE, "nil")
    /\ Mode(rm) = "Completed"

----------------------------------------------------------------------------
(* C2 *)

\* C2: in every reachable state of the store, whatever Splits, Resets,
\* overrides and imports were made and wherever their transactions failed,
\* at most one run row has is_pb set.
C2_AtMostOnePB == Cardinality(FlaggedPB(db)) <= 1

\* A second completed run has taken the flag from the first.
C2_Witness ==
    /\ Len(db.runs) = 2
    /\ db.runs[1].completed /\ ~db.runs[1].is_pb
    /\ db.runs[2].completed /\ db.runs[2].is_pb

----------------------------------------------------------------------------
(* C3 *)

----------------------------------------------------------------------------
(* C4 *)

\* C4: a Split called when the mode is Idle or Completed, or when the current
\* split index is outside [0, N), returns an InvalidState error (and
\* not-final) and changes neither the RunManager (mode, index, durations,
\* start times, counters, PB) nor the store.
C4_RefusedSplit ==
    [][ ( /\ last'.op = "Split"
          /\ \/ Mode(rm) \in {"Idle", "Completed"}
             \/ rm.currentSplit \notin 0..(N - 1) )
        => /\ last' = Result("Split", FALSE, "InvalidState")
           /\ rm' = rm
           /\ db' = db ]_vars

\* A Split was refused while Running, the index being past the last name.
C4_Witness ==
    /\ last = Result("Split", FALSE, "InvalidState")
    /\ rm.isRunning
    /\ rm.currentSplit >= N
    /\ Len(rm.splits) > 0

----------------------------------------------------------------------------
(* C5 *)

\* C5: an Undo called when the mode is Idle or Completed, or when Running with
\* no duration recorded, returns an InvalidState error and changes neither
\* the RunManager nor the store.
C5_RefusedUndo ==
    [][ ( /\ last'.op = "UndoSplit"
          /\ \/ Mode(rm) \in {"Idle", "Completed"}
             \/ Len(rm.splits) = 0 )
        => /\ last' = Result("UndoSplit", FALSE, "InvalidState")
           /\ rm' = rm
           /\ db' = db ]_vars

\* An Undo was refused on a completed attempt that keeps its durations.
C5_Witness ==
    /\ last = Result("UndoSplit", FALSE, "InvalidState")
    /\ Mode(rm) = "Completed"
    /\ Len(rm.splits) = N
    /\ N = 2

----------------------------------------------------------------------------
(* C6 *)

\* C6 as stated: for every k with 0 < k <= N, the k Splits made after
\* StartRun are undone by k Undos, and k further Splits then give k recorded
\* durations again and the mode there was before the Undos (Completed when
\* k = N).
C6_AsStated ==
    /\ scn.phase # "refused"
    /\ (scn.phase = "resplit" /\ scn.j = scn.k) =>
          /\ Len(rm.splits) = scn.k
          /\ Mode(rm) = IF scn.k = N THEN "Completed" ELSE "Running"

\* C6, amended: for every k with 0 < k < N, the k Splits made after StartRun
\* are undone one by one by k Undos (each leaves the mode Running and the
\* index equal to the number of durations), and k further Splits give k
\* recorded durations again with the mode Running, as before the Undos.  For
\* k = N the first Undo is refused and the attempt stays Completed with its
\* N durations.
C6_UndoThenResplit ==
    /\ scn.phase = "undo" =>
          /\ scn.k < N
          /\ Mode(rm) = "Running"
          /\ Len(rm.splits) = scn.k - scn.j
          /\ rm.currentSplit = scn.k - scn.j
    /\ scn.phase = "resplit" =>
          /\ scn.k < N
          /\ Mode(rm) = "Running"
          /\ Len(rm.splits) = scn.j
          /\ rm.currentSplit = scn.j
    /\ scn.phase = "refused" =>
          /\ scn.k = N
          /\ scn.j = 0
          /\ Mode(rm) = "Completed"
          /\ Len(rm.splits) = N

\* Two Splits of a three-split attempt were undone and made again.
C6_Witness ==
    /\ scn = Scn("resplit", 2, 2)
    /\ N = 3
    /\ Mode(rm) = "Running"
    /\ Len(rm.splits) = 2

----------------------------------------------------------------------------
(* C7 *)

\* C7: a ResetRun of a Running attempt whose save succeeds adds exactly one
\* run row, with completed = false, and one split row per recorded duration;
\* raises the attempts counter by exactly one in memory and in the store;
\* and leaves the completed counter, the is_pb flag of every run and the PB
\* held in memory unchanged.
C7_ResetPersistsOneRun ==
    [][ AbandonedSaveStep =>
          LET id == Len(db.runs) + 1
          IN /\ OneRunAdded
             /\ ~db'.runs[id].completed
             /\ ~db'.runs[id].is_pb
             /\ db'.splits = db.splits \o RowsFor(rm, id)
             /\ rm'.attempts = rm.attempts + 1
             /\ db'.config.attempts = db.config.attempts + 1
             /\ rm'.completedRuns = rm.completedRuns
             /\ db'.config.completed = db.config.completed
             /\ rm'.pb = rm.pb ]_vars

----------------------------------------------------------------------------
(* C8 *)

\* C8: a final Split whose save succeeds adds exactly one run row, with
\* completed = true, and exactly N split rows, row i holding the i-th
\* recorded duration and the i-th split name; and raises the attempts and
\* the completed counters by exactly one each, in memory and in the store.
C8_FinalSplitPersistsRun ==
    [][ CompletedSaveStep =>
          LET id == Len(db.runs) + 1
          IN /\ OneRunAddedFlagsAside
             /\ db'.runs[id].completed
             /\ Len(rm'.splits) = N
             /\ db'.splits = db.splits \o RowsFor(rm', id)
             /\ rm'.attempts = rm.attempts + 1
             /\ rm'.completedRuns = rm.completedRuns + 1
             /\ db'.config.attempts = db.config.attempts + 1
             /\ db'.config.completed = db.config.completed + 1 ]_vars

----------------------------------------------------------------------------
(* C9 *)

\* C9: after every successful save of a completed run, each split i of the
\* PB held in memory carries as best segment the least duration stored at
\* index i over the completed runs of the store, whether the run just saved
\* was promoted or not.
C9_BestSegmentsCurrent ==
    (last = Result("Split", TRUE, "nil") /\ rm.pb # Nil) =>
        \A i \in 1..Len(Deref(rm.pb).Splits) :
            Deref(rm.pb).Splits[i].BestSegment = BestSegmentAt(db, i - 1)

----------------------------------------------------------------------------
(* C10 *)

\* C10: when a statement of the save transaction fails (Begin, the counter
\* update, the run insert, a PB flag update, a split insert or the commit),
\* the store after the call is the store before it: no run row, no split
\* row, no counter change and no is_pb change.
C10_FailedSaveLeavesStore ==
    [][ ( /\ last'.op \in {"Split", "ResetRun"}
          /\ last'.err = "PersistenceFailure" )
        => db' = db ]_vars

\* The save of a final Split failed while the store already held a PB: the
\* store still has that one run, its rows and its counter.
C10_Witness ==
    /\ last = Result("Split", TRUE, "PersistenceFailure")
    /\ Len(db.runs) = 1
    /\ FlaggedPB(db) = {1}
    /\ Len(db.splits) = N
    /\ db.config.attempts = 1
    /\ rm.attempts = 2

----------------------------------------------------------------------------
(* C11 *)

\* C11: when the save transaction of a Split or a ResetRun fails at any
\* statement, the attempts and completed counters held in memory are what
\* they were before the call, and they equal the counters of the config row.
C11_FailedSaveKeepsCounters ==
    [][ ( /\ last'.op \in {"Split", "ResetRun"}
          /\ last'.err = "PersistenceFailure" )
        => /\ rm'.attempts = rm.attempts
           /\ rm'.completedRuns = rm.completedRuns
           /\ (rm.attempts = db.config.attempts
                 => rm'.attempts = db'.config.attempts)
           /\ (rm.completedRuns = db.config.completed
                 => rm'.completedRuns = db'.config.completed) ]_vars

----------------------------------------------------------------------------
(* C12 *)

\* C12: when the save made by the final Split fails, the attempt is as it
\* was before that Split: the mode is still Running, the final duration is
\* not recorded, and the index and the start times are unchanged.
C12_FailedFinalSplitKeepsAttempt ==
    [][ ( /\ last'.op = "Split"
          /\ last'.err = "PersistenceFailure" )
        => /\ Mode(rm') = "Running"
           /\ rm'.splits = rm.splits
           /\ rm'.currentSplit = rm.currentSplit
           /\ rm'.startTime = rm.startTime
           /\ rm'.splitStartTime = rm.splitStartTime ]_vars

----------------------------------------------------------------------------
(* C13 *)

\* Every field of every clock string of the document's block scans.
AllScan(doc) ==
    \A i \in DOMAIN Deref(doc.PersonalBest).Splits :
        \A f \in DOMAIN Deref(doc.PersonalBest).Splits[i] :
            Deref(doc.PersonalBest).Splits[i][f].ok

\* C13: a successful import of a document whose personal-best block gives
\* the cumulative times c_0 .. c_m adds one run whose split row at index i
\* holds d_0 = c_0 and d_i = c_i - c_(i-1) for i >= 1, and the stored
\* durations sum to c_m.
C13_CumulativeToSegments ==
    [][ \A doc \in ImportDocs :
          ( /\ last' = Result("ImportFromJSON", FALSE, "nil")
            /\ HasPB(doc)
            /\ AllScan(doc)
            /\ ImportFromJSON(doc, NoFail) )
          => LET times == Deref(doc.PersonalBest).Splits
                 m     == Len(times)
                 c     == [ i \in 1..m |-> ClockTicks(times[i]) ]
                 id    == Len(db'.runs)
                 rows  == SplitsOf(db', id)
             IN /\ Len(db'.runs) = Len(db.runs) + 1
                /\ Len(rows) = m
                /\ \A i \in 1..m :
                      /\ rows[i].split_index = i - 1
                      /\ rows[i].duration_ns =
                            IF i = 1 THEN c[1] ELSE c[i] - c[i - 1]
                /\ RunTotal(db', id) = c[m] ]_vars

\* The README's block, "0:49.000" and "2:46.000", was imported: the PB run
\* holds 49 s and 117 s.
C13_Witness ==
    /\ last = Result("ImportFromJSON", FALSE, "nil")
    /\ Len(db.runs) >= 1
    /\ LET rows == SplitsOf(db, Len(db.runs))
       IN /\ Len(rows) = 2
          /\ rows[1].duration_ns = 49 * TicksPerSecond
          /\ rows[2].duration_ns = 117 * TicksPerSecond
          /\ rows[1].split_index = 0 /\ rows[2].split_index = 1

----------------------------------------------------------------------------
(* C14 *)

\* C14: an import of a document whose personal-best block has a clock string
\* that does not scan returns a MalformedInput error and changes neither the
\* store (config row, split names, runs, splits, is_pb flags) nor the
\* RunManager.
C14_UnscannableTimeAborts ==
    [][ \A doc \in ImportDocs :
          ( /\ last'.op = "ImportFromJSON"
            /\ HasPB(doc)
            /\ ~AllScan(doc)
            /\ ImportFromJSON(doc, NoFail) )
          => /\ last'.err = "MalformedInput"
             /\ db' = db
             /\ rm' = rm ]_vars

----------------------------------------------------------------------------
(* C15 *)

\* C15: when a statement of the import transaction or its commit fails, the
\* store and the RunManager (title, category, counters, split names, PB) are
\* exactly as before the import; and an import changes the RunManager only
\* when it returns without error, its transaction committed.
C15_ImportAllOrNothing ==
    [][ last'.op = "ImportFromJSON" =>
          /\ last'.err = "PersistenceFailure" => (db' = db /\ rm' = rm)
          /\ rm' # rm =>
                /\ last'.err = "nil"
                /\ db'.config.title = rm'.title
                /\ db'.config.attempts = rm'.attempts
                /\ db'.split_names = rm'.splitNames ]_vars

\* An import failed on a store that holds a PB saved under the default
\* configuration: the configuration, the names and the PB are still there.
C15_Witness ==
    /\ last = Result("ImportFromJSON", FALSE, "PersistenceFailure")
    /\ db.config.title = "New Speedrun"
    /\ rm.title = "New Speedrun"
    /\ db.split_names = <<"A", "B">>
    /\ FlaggedPB(db) = {1}
    /\ rm.pb # Nil
    /\ Len(db.splits) = 2

----------------------------------------------------------------------------
(* C16 *)

\* C16: an import of a document that has no personal-best block, or a block
\* with no splits, leaves the is_pb flag of every run and the PB held in
\* memory as they were.
C16_ImportWithoutPBKeepsPB ==
    [][ \A doc \in ImportDocs :
          ( /\ last'.op = "ImportFromJSON"
            /\ ~HasPB(doc)
            /\ \E fail \in ImportFails : ImportFromJSON(doc, fail) )
          => /\ FlaggedPB(db') = FlaggedPB(db)
             /\ rm'.pb = rm.pb ]_vars

----------------------------------------------------------------------------
(* C17 *)

\* The PB run of the store d has a number of splits other than n.
PBSplitsDiffer(d, n) ==
    /\ loadPersonalBest(d) # Nil
    /\ Len(Deref(loadPersonalBest(d)).Splits) # n

\* C17: when the PB run of the store has a number of splits other than the
\* current N, a promoting save and a SaveAsPB that reload it and recompute
\* the best segments return without error and without a crash, and so does
\* the construction of a RunManager over that store.
C17_MismatchedPBReloads ==
    [][ /\ ( /\ last'.op \in {"Split", "SaveAsPB"}
             /\ last'.err \in {"nil", "panic"}
             /\ PBSplitsDiffer(db', Len(rm'.splitNames)) )
           => (last'.err = "nil" /\ ~crashed')
        /\ PBSplitsDiffer(db', Len(db'.split_names))
           => ~NewRunManager(db').panic ]_vars

----------------------------------------------------------------------------
(* C18 *)

\* C18: the elapsed-time query returns zero when the mode is Idle with no
\* recorded durations, the sum of the recorded durations when the mode is
\* Completed, whatever the clock shows, and now minus the attempt start time
\* when the mode is Running; the split-time query returns now minus the
\* current-split start time when Running with index < N, and zero in every
\* other state.
C18_ElapsedQueries ==
    /\ (Mode(rm) = "Idle" /\ rm.splits = <<>>) => GetCurrentTime(rm, now) = 0
    /\ Mode(rm) = "Completed" =>
          \A t \in now..(MaxTime + 1) : GetCurrentTime(rm, t) = SumSeq(rm.splits)
    /\ Mode(rm) = "Running" => GetCurrentTime(rm, now) = now - rm.startTime
    /\ GetCurrentSplitTime(rm, now) =
          IF Mode(rm) = "Running" /\ rm.currentSplit < N
          THEN now - rm.splitStartTime ELSE 0

\* A Running attempt two ticks old whose current split is one tick old.
C18_Witness ==
    /\ Mode(rm) = "Running"
    /\ rm.currentSplit = 1
    /\ N = 2
    /\ GetCurrentTime(rm, now) = 2
    /\ GetCurrentSplitTime(rm, now) = 1

----------------------------------------------------------------------------
(* C19 *)

\* C19: StartRun, in whatever mode it is called, leaves the mode Running,
\* the current split index 0, no recorded duration and both start times
\* equal to the current time, and changes neither the store nor the
\* attempts and completed counters, the PB or the configuration held in
\* memory.
C19_StartRunEffect ==
    [][ last'.op = "StartRun" =>
          /\ Mode(rm') = "Running"
          /\ rm'.currentSplit = 0
          /\ rm'.splits = <<>>
          /\ rm'.startTime = now
          /\ rm'.splitStartTime = rm'.startTime
          /\ db' = db
          /\ rm'.attempts = rm.attempts
          /\ rm'.completedRuns = rm.completedRuns
          /\ rm'.pb = rm.pb
          /\ rm'.splitNames = rm.splitNames
          /\ rm'.title = rm.title /\ rm'.category = rm.category ]_vars

\* An attempt was started at tick 2 after a two-split attempt was completed
\* and saved as the PB.
C19_Witness ==
    /\ last = Result("StartRun", FALSE, "nil")
    /\ Mode(rm) = "Running"
    /\ rm.splits = <<>>
    /\ rm.startTime = 2
    /\ N = 2
    /\ Len(db.runs) = 1
    /\ db.runs[1].completed
    /\ rm.pb # Nil
    /\ rm.completedRuns = 1

----------------------------------------------------------------------------
(* C20 *)

\* C20: when ResetRun returns, from whatever mode and whether or not the
\* save of an abandoned Running attempt succeeded, the mode is Idle, the
\* current split index 0 and no duration is recorded; and a ResetRun called
\* when the mode is Idle or Completed leaves the store and the counters as
\* they were.
C20_ResetClears ==
    [][ (last'.op = "ResetRun" /\ last'.err # "panic") =>
          /\ Mode(rm') = "Idle"
          /\ rm'.currentSplit = 0
          /\ rm'.splits = <<>>
          /\ Mode(rm) \in {"Idle", "Completed"} =>
                /\ db' = db
                /\ rm'.attempts = rm.attempts
                /\ rm'.completedRuns = rm.completedRuns ]_vars

----------------------------------------------------------------------------
(* C21 *)

\* The ids of the completed runs of the store d.
CompletedRuns(d) == { k \in DOMAIN d.runs : d.runs[k].completed }

\* The durations of the split rows of run id, by ascending split index.
StoredDurations(d, id) ==
    [ i \in 1..Len(SplitsOf(d, id)) |-> OrderByIndex(SplitsOf(d, id))[i].duration_ns ]

\* The durations of the splits of the PB p held in memory.
PBDurations(p) == [ i \in 1..Len(Deref(p).Splits) |-> Deref(p).Splits[i].Duration ]

\* C21: after a SaveAsPB that returned without error exactly one run is
\* flagged PB, the completed run with the greatest id, whatever its total,
\* and the PB held in memory is that run; after a SaveAsPB that returned an
\* error (attempt not Completed, no completed run, or a failed statement)
\* the flags and the RunManager are as before.
C21_OverrideFlagsLatestCompleted ==
    [][ last'.op = "SaveAsPB" =>
          /\ last'.err = "nil" =>
                LET id == CHOOSE k \in CompletedRuns(db) :
                              \A j \in CompletedRuns(db) : j <= k
                IN /\ CompletedRuns(db) # {}
                   /\ FlaggedPB(db') = {id}
                   /\ rm'.pb # Nil
                   /\ Deref(rm'.pb).ID = id
                   /\ PBDurations(rm'.pb) = StoredDurations(db', id)
          /\ last'.err \in {"InvalidState", "NoRows", "PersistenceFailure"} =>
                /\ FlaggedPB(db') = FlaggedPB(db)
                /\ rm' = rm ]_vars

\* The override has moved the flag from run 1 to the slower run 2.
C21_Witness ==
    /\ last = Result("SaveAsPB", FALSE, "nil")
    /\ Len(db.runs) = 2
    /\ CompletedRuns(db) = {1, 2}
    /\ FlaggedPB(db) = {2}
    /\ RunTotal(db, 2) > RunTotal(db, 1)
    /\ Deref(rm.pb).ID = 2

----------------------------------------------------------------------------
(* C22 *)

----------------------------------------------------------------------------
(* C23 *)

\* C23: in every reachable state every run flagged PB is a completed run
\* (a run saved by ResetRun is flagged neither by the save, nor by SaveAsPB,
\* nor by an import), and the PB held in memory, when there is one, is a
\* completed run.
C23_PBIsCompleted ==
    /\ \A k \in FlaggedPB(db) : db.runs[k].completed
    /\ rm.pb # Nil => Deref(rm.pb).Completed

\* An abandoned run faster than the PB was saved, and is not flagged.
C23_Witness ==
    /\ Len(db.runs) = 2
    /\ db.runs[1].completed
    /\ ~db.runs[2].completed
    /\ RunTotal(db, 2) < RunTotal(db, 1)
    /\ FlaggedPB(db) = {1}
    /\ rm.pb # Nil
    /\ last = Result("ResetRun", FALSE, "nil")

----------------------------------------------------------------------------
(* C24 *)

\* The PB held by the manager m is the PB recorded in the store d: none when
\* no completed run is flagged, otherwise the flagged completed run, with its
\* durations in index order.
PBMatchesStore(m, d) ==
    LET flagged == FlaggedPB(d) \cap CompletedRuns(d)
    IN /\ m.pb = Nil <=> flagged = {}
       /\ m.pb # Nil =>
             /\ Deref(m.pb).ID \in flagged
             /\ PBDurations(m.pb) = StoredDurations(d, Deref(m.pb).ID)

----------------------------------------------------------------------------
(* C25 *)

\* C25: in every reachable state the split-name list has at least one name,
\* in memory and in the store, whatever lists were passed to
\* UpdateSplitNames.
C25_NamesNonEmpty ==
    /\ Len(rm.splitNames) >= 1
    /\ Len(db.split_names) >= 1

----------------------------------------------------------------------------
(* C26 *)

\* C26: every attempt begun by StartRun is counted once in the stored
\* attempts counter by the time it has ended: the counter rises by one at
\* the final Split, at the ResetRun of a Running attempt, and at a StartRun
\* that supersedes a Running attempt.
C26_EveryAttemptCounted ==
    [][ ( \/ last' = Result("Split", TRUE, "nil")
          \/ (last' = Result("ResetRun", FALSE, "nil") /\ Mode(rm) = "Running")
          \/ (last'.op = "StartRun" /\ Mode(rm) = "Running") )
        => db'.config.attempts = db.config.attempts + 1 ]_vars

----------------------------------------------------------------------------
(* C27 *)

\* Every split of the PB held by m carries the least duration stored at its
\* index over the completed runs of d.
BestSegmentsFilled(m, d) ==
    m.pb # Nil =>
        \A i \in 1..Len(Deref(m.pb).Splits) :
            Deref(m.pb).Splits[i].BestSegment = BestSegmentAt(d, i - 1)

\* C27: after an import that returned without error and installed a PB,
\* every split of the PB held in memory carries as best segment the least
\* duration stored at its index over all completed runs, and the same holds
\* for a RunManager constructed over the store.
C27_BestSegmentsAfterImport ==
    [][ \A doc \in ImportDocs :
          ( /\ last' = Result("ImportFromJSON", FALSE, "nil")
            /\ HasPB(doc)
            /\ AllScan(doc)
            /\ ImportFromJSON(doc, NoFail) )
          => /\ BestSegmentsFilled(rm', db')
             /\ BestSegmentsFilled(NewRunManager(db').rm, db') ]_vars

----------------------------------------------------------------------------
(* C28 *)

\* C28: an UndoSplit that returns without error was called in mode Running
\* with at least one recorded duration; it removes exactly the last recorded
\* duration, lowers the current split index by one, sets the current-split
\* start time to now, keeps the mode Running, and leaves the earlier
\* durations, the attempt start time, the counters, the PB, the
\* configuration held in memory and the store as they were.
C28_UndoEffect ==
    [][ last' = Result("UndoSplit", FALSE, "nil") =>
          /\ Mode(rm) = "Running"
          /\ Len(rm.splits) >= 1
          /\ rm'.splits = SubSeq(rm.splits, 1, Len(rm.splits) - 1)
          /\ rm'.currentSplit = rm.currentSplit - 1
          /\ rm'.splitStartTime = now
          /\ Mode(rm') = "Running"
          /\ rm'.startTime = rm.startTime
          /\ rm'.attempts = rm.attempts
          /\ rm'.completedRuns = rm.completedRuns
          /\ rm'.pb = rm.pb
          /\ rm'.splitNames = rm.splitNames
          /\ rm'.title = rm.title /\ rm'.category = rm.category
          /\ db' = db ]_vars

\* The second of two Splits was undone at tick 2: the first duration, one
\* tick, is still recorded and the attempt start time is still 0.
C28_Witness ==
    /\ last = Result("UndoSplit", FALSE, "nil")
    /\ rm.splits = <<1>>
    /\ rm.currentSplit = 1
    /\ rm.startTime = 0
    /\ rm.splitStartTime = 2
    /\ now = 2
    /\ Mode(rm) = "Running"

----------------------------------------------------------------------------
(* C29 *)

\* C29: an elapsed-time query that runs between two field assignments of
\* StartRun, Split, UndoSplit or ResetRun returns what it returns in the
\* state before the operation or what it returns in the state after it.
C29_QueriesSeeBeforeOrAfter ==
    [][ last'.op \in {"StartRun", "Split", "UndoSplit", "ResetRun"} =>
          \A v \in ViewsDuring(last'.op, rm, rm') :
             /\ GetCurrentTime(v, now) \in
                   { GetCurrentTime(rm, now), GetCurrentTime(rm', now) }
             /\ GetCurrentSplitTime(v, now) \in
                   { GetCurrentSplitTime(rm, now), GetCurrentSplitTime(rm', now) } ]_vars

----------------------------------------------------------------------------
(* C30 *)

\* C30: in every state between two calls of StartRun, Split, UndoSplit and
\* ResetRun, calls that returned an error included, the running flag and
\* the completed flag are not both set.
C30_ModeIsExclusive == ~(rm.isRunning /\ rm.isCompleted)

\* A final Split whose save failed has left the attempt Completed and not
\* running; a StartRun after a Completed attempt clears the completed flag.
C30_Witness ==
    /\ last = Result("StartRun", FALSE, "nil")
    /\ rm.isRunning /\ ~rm.isCompleted
    /\ Len(db.runs) = 0
    /\ rm.completedRuns = 1

----------------------------------------------------------------------------
(* C31 *)

----------------------------------------------------------------------------
(* C32 *)

\* C32: whenever SaveAsPB returns without error for a Completed attempt,
\* the run it flags is the run persisted for that attempt: the durations of
\* the new PB are the attempt's recorded durations, whatever happened before
\* the call (a failed save of the final split included).
C32_OverrideFlagsCurrentAttempt ==
    [][ (last' = Result("SaveAsPB", FALSE, "nil") /\ rm.isCompleted)
        => /\ rm'.pb # Nil
           /\ PBDurations(rm'.pb) = rm.splits
           /\ \E id \in FlaggedPB(db') : StoredDurations(db', id) = rm.splits ]_vars

----------------------------------------------------------------------------
(* C33 *)

\* C33: with a fixed list of N split names and the operations Start, Split,
\* Undo and Reset (their saves succeeding or failing), in Running the
\* current split index equals the number of recorded durations and lies in
\* 0..N-1; in Completed there are N recorded durations and the index is
\* N-1; in Idle the index is 0 and nothing is recorded.
C33_IndexMatchesDurations ==
    /\ Mode(rm) = "Running" =>
           /\ rm.currentSplit = Len(rm.splits)
           /\ 0 <= rm.currentSplit
           /\ rm.currentSplit < N
    /\ Mode(rm) = "Completed" =>
           /\ Len(rm.splits) = N
           /\ rm.currentSplit = N - 1
    /\ Mode(rm) = "Idle" =>
           /\ rm.currentSplit = 0
           /\ rm.splits = <<>>

\* An attempt over two names is Completed after at least one run was saved:
\* two durations are recorded and the index is that of the last split.
C33_Witness ==
    /\ N = 2
    /\ Mode(rm) = "Completed"
    /\ Len(rm.splits) = 2
    /\ rm.currentSplit = 1
    /\ Len(db.runs) >= 1

----------------------------------------------------------------------------
(* C34 *)

\* C34: starting from an empty store, without imports and with every
\* statement succeeding, the attempts counter (in memory and in the config
\* row) equals the number of run rows, the completed counter equals the
\* number of completed run rows, and the attempt numbers of the run rows
\* are 1, 2, ... in insertion order.
C34_CountersMatchHistory ==
    /\ rm.attempts = Len(db.runs)
    /\ db.config.attempts = Len(db.runs)
    /\ rm.completedRuns = Cardinality(CompletedRuns(db))
    /\ db.config.completed = Cardinality(CompletedRuns(db))
    /\ \A k \in DOMAIN db.runs : db.runs[k].attempt_num = k

\* An abandoned run and a completed run were saved, in this order.
C34_Witness ==
    /\ Len(db.runs) = 2
    /\ ~db.runs[1].completed
    /\ db.runs[2].completed
    /\ rm.attempts = 2
    /\ rm.completedRuns = 1
    /\ db.runs[2].attempt_num = 2

----------------------------------------------------------------------------
(* C35 *)

\* C35: starting from an empty store, without imports, overrides or failing
\* statements, whenever a completed run exists exactly one run is flagged
\* PB, it is a completed run whose total is the least among the completed
\* runs and the earliest of those with that total; and every step keeps
\* the flagged run or replaces it with a run of strictly smaller total.
C35_PBIsFastest ==
    /\ [](CompletedRuns(db) # {} =>
            \E id \in CompletedRuns(db) :
               /\ FlaggedPB(db) = {id}
               /\ \A j \in CompletedRuns(db) :
                     \/ RunTotal(db, id) < RunTotal(db, j)
                     \/ RunTotal(db, id) = RunTotal(db, j) /\ id <= j)
    /\ [][ \/ FlaggedPB(db') = FlaggedPB(db)
           \/ /\ FlaggedPB(db') # {}
              /\ \A new \in FlaggedPB(db'), old \in FlaggedPB(db) :
                    RunTotal(db', new) < RunTotal(db, old) ]_vars

\* A second completed run tied the PB and was saved without promotion.
C35_Witness ==
    /\ last = Result("Split", TRUE, "nil")
    /\ CompletedRuns(db) = {1, 2}
    /\ RunTotal(db, 1) = RunTotal(db, 2)
    /\ FlaggedPB(db) = {1}

----------------------------------------------------------------------------
(* C36 *)

\* C36: for every sequence of Splits and Undos between Start and the final
\* Split, the elapsed time frozen in Completed, which is also the total
\* compared with the PB, equals the clock time between Start and the final
\* Split.
C36_FrozenTimeIsClockTime ==
    [][ (last'.op = "Split" /\ last'.ret)
        => /\ Mode(rm') = "Completed"
           /\ GetCurrentTime(rm', now') = now - rm.startTime
           /\ SumSeq(rm'.splits) = now - rm.startTime ]_vars

----------------------------------------------------------------------------
(* C37 *)

\* C37: every split duration in the store is non-negative, after any
\* sequence of Splits, Resets and imports, the imports of documents whose
\* cumulative times decrease or do not scan included.
C37_DurationsNonNegative ==
    \A k \in DOMAIN db.splits : db.splits[k].duration_ns >= 0

----------------------------------------------------------------------------
(* C38 *)

\* C38: in every reachable state the number of recorded durations is at
\* most the number of split names, also when UpdateSplitNames shortens the
\* list during an attempt, so that the save made by Reset or by the final
\* Split finds a name for every recorded duration and does not panic.
C38_DurationsWithinNames ==
    /\ Len(rm.splits) <= Len(rm.splitNames)
    /\ last.op \in {"Split", "ResetRun"} => last.err # "panic"

----------------------------------------------------------------------------
(* C39 *)

\* C39: a RunManager constructed on the store as it is, after any sequence
\* of operations (failed saves included), has the title, the category, the
\* attempts and completed counters, the split names and the PB (the same
\* run with the same durations) that the closed RunManager held in memory.
C39_RestartRestoresMemory ==
    ~crashed =>
        LET r == NewRunManager(db).rm
        IN /\ r.title = rm.title
           /\ r.category = rm.category
           /\ r.attempts = rm.attempts
           /\ r.completedRuns = rm.completedRuns
           /\ r.splitNames = rm.splitNames
           /\ (r.pb = Nil) = (rm.pb = Nil)
           /\ rm.pb # Nil =>
                 /\ Deref(r.pb).ID = Deref(rm.pb).ID
                 /\ PBDurations(r.pb) = PBDurations(rm.pb)

====
